---- MODULE Spec2Model ----
(***************************************************************************)
(* A model of the HexCorp storage cog (src/ai/storage.py) and of its order *)
(* reporting (src/ai/orders_reporting.py).                                 *)
(*                                                                         *)
(* Text (message contents, identifiers, role names, the roles column) is a *)
(* sequence of one-character strings, so that the regular expression, the  *)
(* '|'.join and the split('|') are computed, not assumed.                  *)
(*                                                                         *)
(* A coroutine runs without interruption from one await to the next: an    *)
(* action of the model is one such segment.  The effect of an awaited call *)
(* to the chat platform (remove_roles, add_roles, send) becomes visible    *)
(* when the coroutine resumes from it.                                     *)
(***************************************************************************)
EXTENDS Integers, Sequences, FiniteSets, TLC

VARIABLES
    now,              \* wall clock (datetime.now()), in minutes
    guildRoles,       \* guild.roles: the names of the roles that exist
    members,          \* guild.members: the members present
    memberRoles,      \* member.roles, as a set of role names
    storage,          \* the rows of table storage, in insertion order
    nextStoredId,     \* stands for uuid4(): the next unused row id
    handlers,         \* the message handlers in flight (store, release)
    reporter_started, \* Storage.reporter_started
    release_started,  \* Storage.release_started
    reporters,        \* running copies of the body of report_storage
    releasers,        \* running copies of the body of release_timed
    releaseLoop,      \* the position and locals of release_timed
    orders,           \* the rows of table orders, in insertion order
    nextOrderId,      \* stands for uuid4(): the next unused order id
    orderHandlers,    \* the report_order invocations in flight
    orderLoops,       \* the copies of check_for_completed_orders
    noticed,          \* the deactivation notices sent, by order id
    outbox            \* the messages sent by the latest step

vars == <<now, guildRoles, members, memberRoles, storage, nextStoredId,
          handlers, reporter_started, release_started, reporters, releasers,
          releaseLoop, orders, nextOrderId, orderHandlers, orderLoops,
          noticed, outbox>>

storageVars == <<storage, nextStoredId, handlers, reporter_started,
                 release_started, reporters, releasers, releaseLoop>>

orderVars == <<orders, nextOrderId, orderHandlers, orderLoops, noticed>>

(***************************************************************************)
(* Bounds of the model.                                                    *)
(***************************************************************************)
MaxHandlers == 2

MaxStored == 2

MaxOrderHandlers == 2

MaxOrders == 2

MaxOrderLoops == 2

MaxTime == 121

\* None, where a text or a role is expected
None == <<"None">>

\* None, where a member is expected
NoMember == "None"

\* None, where a row is expected
NoRow == [id |-> 0]

(***************************************************************************)
(* Text.                                                                   *)
(***************************************************************************)
Digits == {"0", "1", "2", "3", "4", "5", "6", "7", "8", "9"}

DigitValue(c) ==
    CASE c = "0" -> 0 [] c = "1" -> 1 [] c = "2" -> 2 [] c = "3" -> 3
      [] c = "4" -> 4 [] c = "5" -> 5 [] c = "6" -> 6 [] c = "7" -> 7
      [] c = "8" -> 8 [] c = "9" -> 9

\* int(time) on a run of decimal digits
RECURSIVE ToInt(_)
ToInt(s) ==
    IF s = <<>> THEN 0
    ELSE 10 * ToInt(SubSeq(s, 1, Len(s) - 1)) + DigitValue(s[Len(s)])

LowerChar(c) ==
    CASE c = "H" -> "h" [] c = "E" -> "e" [] c = "L" -> "l" [] c = "P" -> "p"
      [] c = "R" -> "r" [] c = "A" -> "a" [] c = "S" -> "s"
      [] OTHER -> c

\* the text as it was typed, in the case it was typed in
AsTyped(s) == s

\* str.lower()
Lower(s) == [i \in 1..Len(s) |-> LowerChar(s[i])]

\* str.startswith(prefix)
StartsWith(s, prefix) ==
    /\ Len(s) >= Len(prefix)
    /\ SubSeq(s, 1, Len(prefix)) = prefix

AllDigits(s) == \A i \in 1..Len(s) : s[i] \in Digits

\* the length of the run of digits of s that starts at position i
RECURSIVE DigitRun(_, _)
DigitRun(s, i) ==
    IF i <= Len(s) /\ s[i] \in Digits THEN 1 + DigitRun(s, i + 1) ELSE 0

\* the part of s before its first newline: what (.*) matches
RECURSIVE UpToNewline(_)
UpToNewline(s) ==
    IF s = <<>> \/ Head(s) = "\n" THEN <<>>
    ELSE <<Head(s)>> \o UpToNewline(Tail(s))

Sep == <<" ", ":", ":", " ">>

\* re.match(MESSAGE_FORMAT, content): ^(\d{4}) :: (\d{4}) :: (\d+) :: (.*)
MessageMatches(content) ==
    /\ Len(content) >= 17
    /\ AllDigits(SubSeq(content, 1, 4))
    /\ SubSeq(content, 5, 8) = Sep
    /\ AllDigits(SubSeq(content, 9, 12))
    /\ SubSeq(content, 13, 16) = Sep
    /\ LET k == DigitRun(content, 17)
       IN  /\ k >= 1
           /\ Len(content) >= 17 + k + 3
           /\ SubSeq(content, 17 + k, 17 + k + 3) = Sep

\* re.findall(MESSAGE_FORMAT, content): (drone_id, target_id, time, purpose)
ParseMessage(content) ==
    LET k == DigitRun(content, 17)
    IN  [drone_id  |-> SubSeq(content, 1, 4),
         target_id |-> SubSeq(content, 9, 12),
         time      |-> SubSeq(content, 17, 17 + k - 1),
         purpose   |-> UpToNewline(SubSeq(content, 17 + k + 4, Len(content)))]

\* '|'.join(names)
RECURSIVE Join(_)
Join(names) ==
    IF names = <<>> THEN <<>>
    ELSE IF Len(names) = 1 THEN names[1]
    ELSE names[1] \o <<"|">> \o Join(Tail(names))

\* text.split('|'): never empty, ''.split('|') is ['']
RECURSIVE SplitAcc(_, _)
SplitAcc(s, cur) ==
    IF s = <<>> THEN <<cur>>
    ELSE IF Head(s) = "|" THEN <<cur>> \o SplitAcc(Tail(s), <<>>)
    ELSE SplitAcc(Tail(s), Append(cur, Head(s)))

Split(s) == SplitAcc(s, <<>>)

(***************************************************************************)
(* Time: str(datetime) and datetime.fromisoformat, as decimal text.        *)
(***************************************************************************)
DigitChar(d) ==
    CASE d = 0 -> "0" [] d = 1 -> "1" [] d = 2 -> "2" [] d = 3 -> "3"
      [] d = 4 -> "4" [] d = 5 -> "5" [] d = 6 -> "6" [] d = 7 -> "7"
      [] d = 8 -> "8" [] d = 9 -> "9"

\* str(datetime.now() + timedelta(...))
RECURSIVE TimeToStr(_)
TimeToStr(n) ==
    IF n < 10 THEN <<DigitChar(n)>>
    ELSE Append(TimeToStr(n \div 10), DigitChar(n % 10))

\* datetime.fromisoformat(text)
FromIso(text) == ToInt(text)

MinutesPerHour == 60

\* timedelta(hours=h), in minutes
Hours(h) == h * MinutesPerHour

(***************************************************************************)
(* The guild: role names (module roles), members, derived identifiers.     *)
(***************************************************************************)
EVERYONE == <<"@">>

DRONE == <<"D">>

STORED == <<"S">>

HIVE_MXTRESS == <<"H">>

NITRO_BOOSTER == <<"N">>

PATREON_SUPPORTER == <<"P">>

MODERATION_ROLES == <<HIVE_MXTRESS>>

\* an ordinary role of the community, which its moderators may delete
ASSOCIATE == <<"a">>

\* guild.roles is ordered by position, and so is member.roles
RoleOrder == <<EVERYONE, ASSOCIATE, DRONE, STORED, NITRO_BOOSTER, HIVE_MXTRESS>>

DeletableRoles == {ASSOCIATE}

\* guild.members, in the order the guild lists them
MemberOrder == <<"m1", "m2", "m3">>

AllMembers == {MemberOrder[i] : i \in 1..Len(MemberOrder)}

\* bot_utils.get_id(member.display_name): the four digits of the display
\* name, None when it holds none
get_id(m) ==
    CASE m = "m1" -> <<"1", "2", "3", "4">>
      [] m = "m2" -> <<"5", "6", "7", "8">>
      [] OTHER -> None

InitialRoles(m) ==
    CASE m = "m1" -> {EVERYONE, DRONE, ASSOCIATE}
      [] m = "m2" -> {EVERYONE, DRONE, HIVE_MXTRESS}
      [] OTHER -> {EVERYONE}

\* member.roles as the list discord keeps, by position
RolesOf(m) == SelectSeq(RoleOrder, LAMBDA r : r \in memberRoles[m])

\* roles.has_role(member, name)
has_role(m, name) == name \in memberRoles[m]

\* discord.utils.get(guild.roles, name=name)
GetRole(name) == IF name \in guildRoles THEN name ELSE None

SeqToSet(s) == {s[i] : i \in 1..Len(s)}

ProtectedNames ==
    SeqToSet(MODERATION_ROLES) \cup {EVERYONE, NITRO_BOOSTER, PATREON_SUPPORTER}

\* filter_out_non_removable_roles(member.roles)
filter_out_non_removable_roles(unfiltered_roles) ==
    SelectSeq(unfiltered_roles, LAMBDA r : r \notin ProtectedNames)

\* get_names_for_roles(roles)
get_names_for_roles(roles) == [i \in 1..Len(roles) |-> roles[i]]

\* get_roles_for_names(guild, role_names): None where a name does not resolve
get_roles_for_names(role_names) ==
    [i \in 1..Len(role_names) |-> GetRole(role_names[i])]

\* the first member of the guild, in its order, among the matching ones
FirstMember(matching) ==
    LET hits == SelectSeq(MemberOrder, LAMBDA m : m \in members /\ m \in matching)
    IN  IF hits = <<>> THEN NoMember ELSE hits[1]

\* a role a request can name: it is a role (not None) the guild still has
RoleUsable(r) == r # None /\ r \in guildRoles

\* the length of the longest prefix of roles that requests can name
RECURSIVE UsablePrefix(_)
UsablePrefix(roles) ==
    IF roles = <<>> \/ ~RoleUsable(Head(roles)) THEN 0
    ELSE 1 + UsablePrefix(Tail(roles))

\* member.add_roles(*roles) / member.remove_roles(*roles) with atomic=True:
\* one request per role, in order; the call raises at the first role that is
\* None (it has no id) or that the guild no longer has, and when the member
\* has left the guild
RoleCallOk(m, roles) ==
    /\ m \in members
    /\ UsablePrefix(roles) = Len(roles)

\* the roles such a call has added or removed when it returns or raises
RoleCallDone(m, roles) ==
    IF m \notin members THEN {}
    ELSE SeqToSet(SubSeq(roles, 1, UsablePrefix(roles)))

(***************************************************************************)
(* Tables.                                                                 *)
(***************************************************************************)
\* get_stored_drones(): every row of the table, in its order
get_stored_drones == storage

\* database.change('DELETE FROM storage WHERE id=:id')
DeleteStored(rows, id) == SelectSeq(rows, LAMBDA r : r.id # id)

StoredIds == {storage[i].id : i \in 1..Len(storage)}

Idle == [pc |-> "idle"]

IdleSlots == {s \in 1..MaxHandlers : handlers[s] = Idle}

StoresInFlight ==
    Cardinality({s \in 1..MaxHandlers :
                    handlers[s].pc \in {"store_remove", "store_add"}})

(***************************************************************************)
(* Messages posted to the storage facility channel.                        *)
(***************************************************************************)
Id1 == <<"1", "2", "3", "4">>

Id2 == <<"5", "6", "7", "8">>

StoreText(drone_id, target_id, time, purpose) ==
    drone_id \o Sep \o target_id \o Sep \o time \o Sep \o purpose

ReleaseText == <<"R", "e", "l", "e", "a", "s", "e", " ", "@", "x">>

Message(author, content, mentions) ==
    [author |-> author, content |-> content, mentions |-> mentions]

StorageMessages ==
    { Message("m1", StoreText(Id1, Id1, <<"1">>, <<"x">>), <<>>),
      Message("m2", StoreText(Id2, Id1, <<"2">>, <<"x">>), <<>>),
      Message("m2", StoreText(Id2, Id2, <<"1">>, <<"y">>), <<>>),
      Message("m2", ReleaseText, <<"m1">>),
      Message("m1", ReleaseText, <<"m1">>) }

\* a bound that stops one hour short
ShortStorageHours == 24 - 1

MaxStorageHours == 24

Sent(to, kind, about) == [to |-> to, kind |-> kind, about |-> about]

Outcome(claimed, h, sent) == [claimed |-> claimed, h |-> h, sent |-> sent]

(***************************************************************************)
(* Storage.store, up to its first await.                                   *)
(***************************************************************************)
\* a search that stops at the first member with the identifier, whatever
\* roles the member holds
AnyMemberWithId(target_id) ==
    FirstMember({m \in AllMembers : get_id(m) = target_id})

\* the member the for loop of store stops at: the first with the target's
\* identifier that holds the drone role
StoreTarget(target_id) ==
    FirstMember({m \in AllMembers :
                    get_id(m) = target_id /\ DRONE \in memberRoles[m]})

StoreEntry(message) ==
    IF Lower(message.content) = <<"h", "e", "l", "p">>
    THEN Outcome("False", Idle, <<>>)
    ELSE IF ~MessageMatches(message.content)
    THEN Outcome("True", Idle, <<Sent("channel", "REJECT_MESSAGE", <<>>)>>)
    ELSE
    LET p == ParseMessage(message.content)
        stored == get_stored_drones
        member == StoreTarget(p.target_id)
    IN  IF \E i \in 1..Len(stored) : stored[i].target_id = p.target_id
        THEN Outcome("True", Idle,
                     <<Sent("channel", "already in storage", p.target_id)>>)
        ELSE IF ~(0 < ToInt(p.time) /\ ToInt(p.time) <= MaxStorageHours)
        THEN Outcome("True", Idle,
                     <<Sent("channel", "not between 0 and 24", p.time)>>)
        ELSE IF member = NoMember
        THEN Outcome("True", Idle,
                     <<Sent("channel", "could not be found", p.target_id)>>)
        ELSE Outcome("awaiting",
                     [pc |-> "store_remove", member |-> member,
                      former_roles |->
                          filter_out_non_removable_roles(RolesOf(member)),
                      drone_id |-> p.drone_id, target_id |-> p.target_id,
                      time |-> p.time, purpose |-> p.purpose],
                     <<>>)

(***************************************************************************)
(* Storage.release, up to its first await.                                 *)
(***************************************************************************)
ReleaseEntry(message) ==
    IF ~StartsWith(Lower(message.content),
                   <<"r", "e", "l", "e", "a", "s", "e">>)
    THEN Outcome("False", Idle, <<>>)
    ELSE IF ~has_role(message.author, HIVE_MXTRESS)
    THEN Outcome("False", Idle, <<>>)
    ELSE IF message.mentions = <<>>
    THEN Outcome("raised", Idle, <<>>)
    ELSE
    LET member == message.mentions[1]
        to_release_id == get_id(member)
        found == SelectSeq(get_stored_drones,
                           LAMBDA d : d.target_id = to_release_id)
    IN  IF found = <<>>
        THEN Outcome("True", Idle, <<>>)
        ELSE Outcome("awaiting",
                     [pc |-> "release_remove", member |-> member,
                      drone |-> found[1]],
                     <<>>)

\* the handlers of on_message, tried in order until one claims the message
OnMessageChain(message) ==
    LET first == ReleaseEntry(message)
    IN  IF first.claimed = "False" THEN StoreEntry(message) ELSE first

\* roles_whitelist: the cog hears members that hold one of these roles
Whitelisted(m) == has_role(m, HIVE_MXTRESS) \/ has_role(m, DRONE)

OnMessage(message) ==
    /\ message.author \in members
    /\ Whitelisted(message.author)
    /\ IdleSlots # {}
    /\ LET out == OnMessageChain(message)
           s == CHOOSE x \in IdleSlots : \A y \in IdleSlots : x <= y
       IN  /\ out.h.pc = "store_remove"
                 => nextStoredId + StoresInFlight <= MaxStored
           /\ handlers' = [handlers EXCEPT ![s] = out.h]
           /\ outbox' = out.sent
    /\ UNCHANGED <<now, guildRoles, members, memberRoles, storage,
                   nextStoredId, reporter_started, release_started,
                   reporters, releasers, releaseLoop>>
    /\ UNCHANGED orderVars

(***************************************************************************)
(* Storage.store, from the return of remove_roles on.                      *)
(***************************************************************************)
StoreAfterRemove(s) ==
    LET h == handlers[s]
    IN  /\ h.pc = "store_remove"
        /\ memberRoles' =
               [memberRoles EXCEPT ![h.member] =
                    @ \ RoleCallDone(h.member, h.former_roles)]
        /\ handlers' =
               [handlers EXCEPT ![s] =
                    IF RoleCallOk(h.member, h.former_roles)
                    THEN [h EXCEPT !.pc = "store_add"]
                    ELSE Idle]
        /\ outbox' = <<>>
        /\ UNCHANGED <<now, guildRoles, members, storage, nextStoredId,
                       reporter_started, release_started, reporters,
                       releasers, releaseLoop>>
        /\ UNCHANGED orderVars

StoredDrone(id, drone_id, target_id, purpose, roles, release_time) ==
    [id |-> id, drone_id |-> drone_id, target_id |-> target_id,
     purpose |-> purpose, roles |-> roles, release_time |-> release_time]

StoreAfterAdd(s) ==
    LET h == handlers[s]
        ok == RoleCallOk(h.member, <<STORED>>)
        stored_until == TimeToStr(now + Hours(ToInt(h.time)))
        stored_drone ==
            StoredDrone(nextStoredId, h.drone_id, h.target_id, h.purpose,
                        Join(get_names_for_roles(h.former_roles)),
                        stored_until)
    IN  /\ h.pc = "store_add"
        /\ memberRoles' =
               [memberRoles EXCEPT ![h.member] =
                    @ \cup RoleCallDone(h.member, <<STORED>>)]
        /\ handlers' = [handlers EXCEPT ![s] = Idle]
        /\ IF ok
           THEN /\ storage' = Append(storage, stored_drone)
                /\ nextStoredId' = nextStoredId + 1
                /\ outbox' =
                       <<Sent("chambers", "stored",
                              [member |-> h.member,
                               by |-> IF h.drone_id = h.target_id
                                      THEN "yourself" ELSE h.drone_id,
                               time |-> h.time,
                               plural |-> IF ToInt(h.time) = 1
                                          THEN "hour" ELSE "hours",
                               purpose |-> h.purpose])>>
           ELSE /\ UNCHANGED <<storage, nextStoredId>>
                /\ outbox' = <<>>
        /\ UNCHANGED <<now, guildRoles, members, reporter_started,
                       release_started, reporters, releasers, releaseLoop>>
        /\ UNCHANGED orderVars

(***************************************************************************)
(* Storage.release, from the return of remove_roles on.                    *)
(***************************************************************************)
ReleaseAfterRemove(s) ==
    LET h == handlers[s]
    IN  /\ h.pc = "release_remove"
        /\ memberRoles' =
               [memberRoles EXCEPT ![h.member] =
                    @ \ RoleCallDone(h.member, <<STORED>>)]
        /\ handlers' =
               [handlers EXCEPT ![s] =
                    IF RoleCallOk(h.member, <<STORED>>)
                    THEN [pc |-> "release_add", member |-> h.member,
                          drone |-> h.drone,
                          adding |->
                              get_roles_for_names(Split(h.drone.roles))]
                    ELSE Idle]
        /\ outbox' = <<>>
        /\ UNCHANGED <<now, guildRoles, members, storage, nextStoredId,
                       reporter_started, release_started, reporters,
                       releasers, releaseLoop>>
        /\ UNCHANGED orderVars

ReleaseAfterAdd(s) ==
    LET h == handlers[s]
    IN  /\ h.pc = "release_add"
        /\ memberRoles' =
               [memberRoles EXCEPT ![h.member] =
                    @ \cup RoleCallDone(h.member, h.adding)]
        /\ handlers' = [handlers EXCEPT ![s] = Idle]
        /\ storage' = IF RoleCallOk(h.member, h.adding)
                      THEN DeleteStored(storage, h.drone.id)
                      ELSE storage
        /\ outbox' = <<>>
        /\ UNCHANGED <<now, guildRoles, members, nextStoredId,
                       reporter_started, release_started, reporters,
                       releasers, releaseLoop>>
        /\ UNCHANGED orderVars

(***************************************************************************)
(* Storage.release_timed.                                                  *)
(***************************************************************************)
\* the member the inner for loop of release_timed stops at
ReleaseTarget(stored) == FirstMember({m \in AllMembers : get_id(m) = stored.target_id})

\* The for loop over stored_drones from one await to the next: the rows
\* passed over, up to the first expired row whose member is found.  hit is
\* that row (NoRow at the end of the list); deferred collects the ids of the
\* expired rows no member was found for.
RECURSIVE ScanStored(_, _, _)
ScanStored(rows, t, deferred) ==
    IF rows = <<>>
    THEN [hit |-> NoRow, member |-> NoMember, rest |-> <<>>,
          deferred |-> deferred]
    ELSE
    LET stored == Head(rows)
    IN  IF t > FromIso(stored.release_time)
        THEN IF ReleaseTarget(stored) # NoMember
             THEN [hit |-> stored, member |-> ReleaseTarget(stored),
                   rest |-> Tail(rows), deferred |-> deferred]
             ELSE ScanStored(Tail(rows), t, deferred \cup {stored.id})
        ELSE ScanStored(Tail(rows), t, deferred)

LoopOff == [pc |-> "off"]

\* asleep in asyncio.sleep.  What the ticks did is kept for the properties:
\* deferred holds the ids of the rows the latest tick found expired with no
\* member, before the ids of the rows still in the table that earlier ticks
\* deferred.
Asleep(deferred, before) ==
    [pc |-> "sleep", deferred |-> deferred, before |-> before]

\* the state release_timed is in after scanning rows at its time t
AfterScan(rows, t, deferred, before) ==
    LET scan == ScanStored(rows, t, deferred)
    IN  IF scan.hit = NoRow
        THEN Asleep(scan.deferred, before)
        ELSE [pc |-> "remove", now |-> t, stored |-> scan.hit,
              member |-> scan.member, rest |-> scan.rest,
              deferred |-> scan.deferred, before |-> before]

\* on_ready calls release_timed
StartReleaseTimed ==
    /\ IF release_started
       THEN UNCHANGED <<release_started, releasers, releaseLoop>>
       ELSE /\ release_started' = TRUE
            /\ releasers' = releasers + 1
            /\ releaseLoop' = Asleep({}, {})
    /\ outbox' = <<>>
    /\ UNCHANGED <<now, guildRoles, members, memberRoles, storage,
                   nextStoredId, handlers, reporter_started, reporters>>
    /\ UNCHANGED orderVars

\* asyncio.sleep returns: one tick of the loop, up to its first await
ReleaseTick ==
    /\ releaseLoop.pc = "sleep"
    /\ releaseLoop' =
           AfterScan(get_stored_drones, now, {},
                     (releaseLoop.before \cup releaseLoop.deferred)
                         \cap StoredIds)
    /\ outbox' = <<>>
    /\ UNCHANGED <<now, guildRoles, members, memberRoles, storage,
                   nextStoredId, handlers, reporter_started,
                   release_started, reporters, releasers>>
    /\ UNCHANGED orderVars

\* an exception leaves the while loop: the coroutine is over
LoopDead(l) == [l EXCEPT !.pc = "dead"]

ReleaseTickAfterRemove ==
    LET l == releaseLoop
    IN  /\ l.pc = "remove"
        /\ memberRoles' =
               [memberRoles EXCEPT ![l.member] =
                    @ \ RoleCallDone(l.member, <<STORED>>)]
        /\ IF RoleCallOk(l.member, <<STORED>>)
           THEN /\ releaseLoop' =
                       [pc |-> "add", now |-> l.now, stored |-> l.stored,
                        member |-> l.member, rest |-> l.rest,
                        deferred |-> l.deferred, before |-> l.before,
                        adding |->
                            get_roles_for_names(Split(l.stored.roles))]
                /\ UNCHANGED releasers
           ELSE /\ releaseLoop' = LoopDead(l)
                /\ releasers' = releasers - 1
        /\ outbox' = <<>>
        /\ UNCHANGED <<now, guildRoles, members, storage, nextStoredId,
                       handlers, reporter_started, release_started,
                       reporters>>
        /\ UNCHANGED orderVars

ReleaseTickAfterAdd ==
    LET l == releaseLoop
    IN  /\ l.pc = "add"
        /\ memberRoles' =
               [memberRoles EXCEPT ![l.member] =
                    @ \cup RoleCallDone(l.member, l.adding)]
        /\ IF RoleCallOk(l.member, l.adding)
           THEN /\ storage' = DeleteStored(storage, l.stored.id)
                /\ releaseLoop' =
                       AfterScan(l.rest, l.now, l.deferred, l.before)
                /\ UNCHANGED releasers
           ELSE /\ releaseLoop' = LoopDead(l)
                /\ releasers' = releasers - 1
                /\ UNCHANGED storage
        /\ outbox' = <<>>
        /\ UNCHANGED <<now, guildRoles, members, nextStoredId, handlers,
                       reporter_started, release_started, reporters>>
        /\ UNCHANGED orderVars

(***************************************************************************)
(* Storage.report_storage.                                                 *)
(***************************************************************************)
\* round(hours_from_now(release_time), 2), in hundredths of an hour
RemainingHundredths(release_time) ==
    LET minutes == FromIso(release_time) - now
    IN  (minutes * 200 + MinutesPerHour) \div (2 * MinutesPerHour)

\* on_ready calls report_storage
StartReportStorage ==
    /\ IF reporter_started
       THEN UNCHANGED <<reporter_started, reporters>>
       ELSE /\ reporter_started' = TRUE
            /\ reporters' = reporters + 1
    /\ outbox' = <<>>
    /\ UNCHANGED <<now, guildRoles, members, memberRoles, storage,
                   nextStoredId, handlers, release_started, releasers,
                   releaseLoop>>
    /\ UNCHANGED orderVars

\* one tick of the report: a message for each row, or one for none
ReportTick ==
    /\ reporters > 0
    /\ LET stored_drones == get_stored_drones
       IN  outbox' =
               IF Len(stored_drones) = 0
               THEN <<Sent("chambers", "No drones in storage.", <<>>)>>
               ELSE [i \in 1..Len(stored_drones) |->
                        Sent("chambers", "Remaining time in storage",
                             [target_id |-> stored_drones[i].target_id,
                              drone_id |-> stored_drones[i].drone_id,
                              hundredths |-> RemainingHundredths(
                                  stored_drones[i].release_time)])]
    /\ UNCHANGED <<now, guildRoles, members, memberRoles>>
    /\ UNCHANGED storageVars
    /\ UNCHANGED orderVars

(***************************************************************************)
(* The world around the bot.                                               *)
(***************************************************************************)
\* the instants at which a comparison with the clock can change
Deadlines ==
    {FromIso(storage[i].release_time) : i \in 1..Len(storage)}
        \cup {FromIso(orders[i].finish_time) : i \in 1..Len(orders)}

AdvanceTime ==
    /\ \E d \in Deadlines : \E t \in {d, d + 1} :
           /\ t > now
           /\ t <= MaxTime
           /\ now' = t
    /\ outbox' = <<>>
    /\ UNCHANGED <<guildRoles, members, memberRoles>>
    /\ UNCHANGED storageVars
    /\ UNCHANGED orderVars

\* a moderator deletes a role: no member holds it any longer
DeleteRole(r) ==
    /\ r \in guildRoles
    /\ guildRoles' = guildRoles \ {r}
    /\ memberRoles' = [m \in AllMembers |-> memberRoles[m] \ {r}]
    /\ outbox' = <<>>
    /\ UNCHANGED <<now, members>>
    /\ UNCHANGED storageVars
    /\ UNCHANGED orderVars

MemberLeaves(m) ==
    /\ m \in members
    /\ members' = members \ {m}
    /\ memberRoles' = [memberRoles EXCEPT ![m] = {}]
    /\ outbox' = <<>>
    /\ UNCHANGED <<now, guildRoles>>
    /\ UNCHANGED storageVars
    /\ UNCHANGED orderVars

MemberJoins(m) ==
    /\ m \notin members
    /\ members' = members \cup {m}
    /\ memberRoles' = [memberRoles EXCEPT ![m] = {EVERYONE}]
    /\ outbox' = <<>>
    /\ UNCHANGED <<now, guildRoles>>
    /\ UNCHANGED storageVars
    /\ UNCHANGED orderVars

(***************************************************************************)
(* The initial state and the specification of the storage cog.             *)
(***************************************************************************)
Init ==
    /\ now = 0
    /\ guildRoles = SeqToSet(RoleOrder)
    /\ members = AllMembers
    /\ memberRoles = [m \in AllMembers |-> InitialRoles(m)]
    /\ storage = <<>>
    /\ nextStoredId = 1
    /\ handlers = [s \in 1..MaxHandlers |-> Idle]
    /\ reporter_started = FALSE
    /\ release_started = FALSE
    /\ reporters = 0
    /\ releasers = 0
    /\ releaseLoop = LoopOff
    /\ orders = <<>>
    /\ nextOrderId = 1
    /\ orderHandlers = [s \in 1..MaxOrderHandlers |-> Idle]
    /\ orderLoops = <<>>
    /\ noticed = [id \in 1..MaxOrders |-> 0]
    /\ outbox = <<>>

\* the members that leave the guild and come back
Leavers == {"m2"}

OrderLeavers == {"m1"}

StorageNext ==
    \/ \E message \in StorageMessages : OnMessage(message)
    \/ \E s \in 1..MaxHandlers : StoreAfterRemove(s)
    \/ \E s \in 1..MaxHandlers : StoreAfterAdd(s)
    \/ \E s \in 1..MaxHandlers : ReleaseAfterRemove(s)
    \/ \E s \in 1..MaxHandlers : ReleaseAfterAdd(s)
    \/ StartReleaseTimed
    \/ ReleaseTick
    \/ ReleaseTickAfterRemove
    \/ ReleaseTickAfterAdd
    \/ AdvanceTime
    \/ \E r \in DeletableRoles : DeleteRole(r)
    \/ \E m \in Leavers : MemberLeaves(m)
    \/ \E m \in Leavers : MemberJoins(m)

SpecStorage == Init /\ [][StorageNext]_vars

\* a message arrives when the handlers of the messages before it are through
OneAtATime(message) ==
    /\ \A s \in 1..MaxHandlers : handlers[s] = Idle
    /\ OnMessage(message)

\* Stores and releases handled one message at a time, next to release_timed,
\* in a guild whose roles and members stay as they are.
ReleasesNext ==
    \/ \E message \in StorageMessages : OneAtATime(message)
    \/ \E s \in 1..MaxHandlers : StoreAfterRemove(s)
    \/ \E s \in 1..MaxHandlers : StoreAfterAdd(s)
    \/ \E s \in 1..MaxHandlers : ReleaseAfterRemove(s)
    \/ \E s \in 1..MaxHandlers : ReleaseAfterAdd(s)
    \/ StartReleaseTimed
    \/ ReleaseTick
    \/ ReleaseTickAfterRemove
    \/ ReleaseTickAfterAdd
    \/ AdvanceTime

SpecReleases == Init /\ [][ReleasesNext]_vars

(***************************************************************************)
(* The commands of the storage facility: well formed and not, with hours   *)
(* at and around the bounds, for targets that are there and that are not.  *)
(***************************************************************************)
Id9 == <<"9", "9", "9", "9">>

CommandMessages ==
    { Message("m2", StoreText(Id2, Id1, <<"2", "4">>, <<"x">>), <<>>),
      Message("m2", StoreText(Id2, Id1, <<"0">>, <<"x">>), <<>>),
      Message("m2", StoreText(Id2, Id1, <<"2", "5">>, <<"x">>), <<>>),
      Message("m1", StoreText(Id1, Id2, <<"1">>, <<"x">>), <<>>),
      Message("m2", StoreText(Id2, Id2, <<"2", "5">>, <<"y">>), <<>>),
      Message("m2", StoreText(Id2, Id9, <<"1">>, <<"x">>), <<>>),
      Message("m2", <<"h", "e", "l", "p">>, <<>>),
      Message("m2", <<"H", "E", "L", "P">>, <<>>),
      Message("m1", <<"H", "e", "L", "p">>, <<>>),
      Message("m1", <<"h", "e", "l", "p", "s">>, <<>>),
      Message("m1", StoreText(<<"1", "2">>, Id1, <<"3">>, <<"x">>), <<>>),
      Message("m1", ReleaseText, <<"m1">>) }

CommandsNext ==
    \/ \E message \in CommandMessages : OnMessage(message)
    \/ \E s \in 1..MaxHandlers : StoreAfterRemove(s)
    \/ \E s \in 1..MaxHandlers : StoreAfterAdd(s)
    \/ AdvanceTime
    \/ \E m \in Leavers : MemberLeaves(m)
    \/ \E m \in Leavers : MemberJoins(m)

SpecCommands == Init /\ [][CommandsNext]_vars

(***************************************************************************)
(* Orders: the table (db.drone_order_dao).                                 *)
(***************************************************************************)
ActiveOrder(id, drone_id, protocol, finish_time) ==
    [id |-> id, drone_id |-> drone_id, protocol |-> protocol,
     finish_time |-> finish_time]

fetch_all_drone_orders == orders

get_order_by_drone_id(drone_id) ==
    LET found == SelectSeq(orders, LAMBDA o : o.drone_id = drone_id)
    IN  IF found = <<>> THEN NoRow ELSE found[1]

insert_drone_order(rows, order) == Append(rows, order)

delete_drone_order(rows, id) == SelectSeq(rows, LAMBDA o : o.id # id)

OrderIds == {orders[i].id : i \in 1..Len(orders)}

OrdersInFlight ==
    Cardinality({s \in 1..MaxOrderHandlers : orderHandlers[s] # Idle})

IdleOrderSlots == {s \in 1..MaxOrderHandlers : orderHandlers[s] = Idle}

(***************************************************************************)
(* report_order.                                                           *)
(***************************************************************************)
\* a bound that lets one minute too many through
LongOrderMinutes == 120 + 1

MaxOrderMinutes == 120

\* the authors, protocol names and protocol times tried
OrderAuthors == {"m1", "m2", "m3"}

ProtocolNames == {<<"p">>}

ProtocolTimes == {-5, 0, 1, 120, 121}

\* report_order, up to its first await that something follows
ReportOrderEntry(author, protocol_name, protocol_time) ==
    LET drone_id == get_id(author)
        current_order == get_order_by_drone_id(drone_id)
    IN  IF drone_id = None
        THEN Outcome("None", Idle, <<>>)
        ELSE IF current_order # NoRow
        THEN Outcome("None", Idle,
                     <<Sent("context", "is already undertaking",
                            [drone_id |-> drone_id,
                             protocol |-> current_order.protocol])>>)
        ELSE IF protocol_time > MaxOrderMinutes \/ protocol_time < 1
        THEN Outcome("None", Idle,
                     <<Sent("context", "not authorized for that length",
                            <<>>)>>)
        ELSE Outcome("awaiting",
                     [pc |-> "send", drone_id |-> drone_id,
                      protocol_name |-> protocol_name,
                      protocol_time |-> protocol_time],
                     <<Sent("context", "Activate", drone_id)>>)

report_order(author, protocol_name, protocol_time) ==
    /\ author \in members
    /\ IdleOrderSlots # {}
    /\ LET out == ReportOrderEntry(author, protocol_name, protocol_time)
           s == CHOOSE x \in IdleOrderSlots : \A y \in IdleOrderSlots : x <= y
       IN  /\ out.h # Idle => nextOrderId + OrdersInFlight <= MaxOrders
           /\ orderHandlers' = [orderHandlers EXCEPT ![s] = out.h]
           /\ outbox' = out.sent
    /\ UNCHANGED <<now, guildRoles, members, memberRoles, orders,
                   nextOrderId, orderLoops, noticed>>
    /\ UNCHANGED storageVars

\* report_order, from the return of the send of the activation on
ReportOrderAfterSend(s) ==
    LET h == orderHandlers[s]
        finish_time == TimeToStr(now + h.protocol_time)
        created_order ==
            ActiveOrder(nextOrderId, h.drone_id, h.protocol_name, finish_time)
    IN  /\ h # Idle
        /\ orders' = insert_drone_order(orders, created_order)
        /\ nextOrderId' = nextOrderId + 1
        /\ orderHandlers' = [orderHandlers EXCEPT ![s] = Idle]
        /\ outbox' = <<>>
        /\ UNCHANGED <<now, guildRoles, members, memberRoles, orderLoops,
                       noticed>>
        /\ UNCHANGED storageVars

(***************************************************************************)
(* check_for_completed_orders.                                             *)
(***************************************************************************)
OrderTarget(order) == FirstMember({m \in AllMembers : get_id(m) = order.drone_id})

\* The for loop over the orders from one await to the next: the rows passed
\* over, up to the first expired row a member is found for.  expired
\* collects the ids of the rows found expired.
RECURSIVE ScanOrders(_, _)
ScanOrders(rows, expired) ==
    IF rows = <<>>
    THEN [hit |-> NoRow, member |-> NoMember, rest |-> <<>>,
          expired |-> expired]
    ELSE
    LET order == Head(rows)
    IN  IF now > FromIso(order.finish_time)
        THEN IF OrderTarget(order) # NoMember
             THEN [hit |-> order, member |-> OrderTarget(order),
                   rest |-> Tail(rows),
                   expired |-> expired \cup {order.id}]
             ELSE ScanOrders(Tail(rows), expired \cup {order.id})
        ELSE ScanOrders(Tail(rows), expired)

\* the state of a copy of the loop after scanning rows
AfterOrderScan(rows, expired) ==
    LET scan == ScanOrders(rows, expired)
    IN  IF scan.hit = NoRow
        THEN [pc |-> "sleep", expired |-> scan.expired]
        ELSE [pc |-> "send", order |-> scan.hit, member |-> scan.member,
              rest |-> scan.rest, expired |-> scan.expired]

\* the deactivation notice a copy of the loop sends on reaching `after`
Notice(after) ==
    IF after.pc = "send"
    THEN <<Sent("orders-reporting", "Deactivate",
                [member |-> after.member, drone_id |-> after.order.drone_id])>>
    ELSE <<>>

Noticed(after) ==
    IF after.pc = "send"
    THEN [noticed EXCEPT ![after.order.id] = @ + 1]
    ELSE noticed

\* a startup hook calls check_for_completed_orders
StartOrderLoop ==
    /\ Len(orderLoops) < MaxOrderLoops
    /\ orderLoops' = Append(orderLoops, [pc |-> "sleep", expired |-> {}])
    /\ outbox' = <<>>
    /\ UNCHANGED <<now, guildRoles, members, memberRoles, orders,
                   nextOrderId, orderHandlers, noticed>>
    /\ UNCHANGED storageVars

\* asyncio.sleep(60) returns: one tick of a copy, up to its first await
OrderTick(i) ==
    LET after == AfterOrderScan(fetch_all_drone_orders, {})
    IN  /\ orderLoops[i].pc = "sleep"
        /\ orderLoops' = [orderLoops EXCEPT ![i] = after]
        /\ outbox' = Notice(after)
        /\ noticed' = Noticed(after)
        /\ UNCHANGED <<now, guildRoles, members, memberRoles, orders,
                       nextOrderId, orderHandlers>>
        /\ UNCHANGED storageVars

\* the send of the notice returns: the row is deleted, the scan goes on
OrderTickAfterSend(i) ==
    LET l == orderLoops[i]
        after == AfterOrderScan(l.rest, l.expired)
    IN  /\ l.pc = "send"
        /\ orders' = delete_drone_order(orders, l.order.id)
        /\ orderLoops' = [orderLoops EXCEPT ![i] = after]
        /\ outbox' = Notice(after)
        /\ noticed' = Noticed(after)
        /\ UNCHANGED <<now, guildRoles, members, memberRoles, nextOrderId,
                       orderHandlers>>
        /\ UNCHANGED storageVars

OrdersNext ==
    \/ \E author \in OrderAuthors, protocol_name \in ProtocolNames,
          protocol_time \in ProtocolTimes :
           report_order(author, protocol_name, protocol_time)
    \/ \E s \in 1..MaxOrderHandlers : ReportOrderAfterSend(s)
    \/ StartOrderLoop
    \/ \E i \in 1..Len(orderLoops) : OrderTick(i)
    \/ \E i \in 1..Len(orderLoops) : OrderTickAfterSend(i)
    \/ AdvanceTime
    \/ \E m \in OrderLeavers : MemberLeaves(m)
    \/ \E m \in OrderLeavers : MemberJoins(m)

SpecOrders == Init /\ [][OrdersNext]_vars

\* the order commands alone: invocations of report_order that interleave
\* at the send of the activation, as the clock runs and members come and go
OrderCommandsNext ==
    \/ \E author \in OrderAuthors, protocol_name \in ProtocolNames,
          protocol_time \in ProtocolTimes :
           report_order(author, protocol_name, protocol_time)
    \/ \E s \in 1..MaxOrderHandlers : ReportOrderAfterSend(s)
    \/ AdvanceTime
    \/ \E m \in OrderLeavers : MemberLeaves(m)
    \/ \E m \in OrderLeavers : MemberJoins(m)

SpecOrderCommands == Init /\ [][OrderCommandsNext]_vars

\* the three perpetual loops and their entry points
LoopsNext ==
    \/ \E author \in OrderAuthors, protocol_name \in ProtocolNames,
          protocol_time \in ProtocolTimes :
           report_order(author, protocol_name, protocol_time)
    \/ \E s \in 1..MaxOrderHandlers : ReportOrderAfterSend(s)
    \/ StartOrderLoop
    \/ \E i \in 1..Len(orderLoops) : OrderTick(i)
    \/ \E i \in 1..Len(orderLoops) : OrderTickAfterSend(i)
    \/ AdvanceTime
    \/ StartReleaseTimed
    \/ ReleaseTick
    \/ StartReportStorage
    \/ ReportTick

SpecLoops == Init /\ [][LoopsNext]_vars

\* the report of the storage, with rows to report on
ReportNext ==
    \/ \E message \in StorageMessages : OnMessage(message)
    \/ \E s \in 1..MaxHandlers : StoreAfterRemove(s)
    \/ \E s \in 1..MaxHandlers : StoreAfterAdd(s)
    \/ \E s \in 1..MaxHandlers : ReleaseAfterRemove(s)
    \/ \E s \in 1..MaxHandlers : ReleaseAfterAdd(s)
    \/ StartReportStorage
    \/ ReportTick
    \/ AdvanceTime

SpecReport == Init /\ [][ReportNext]_vars

\* The whole bot.  The two cogs share the clock and the guild only, so each
\* property is checked under the specification of the cog it is about.
Next ==
    \/ StorageNext
    \/ OrdersNext
    \/ StartReportStorage
    \/ ReportTick

Spec == Init /\ [][Next]_vars

(***************************************************************************)
(* Properties of the storage cog.                                          *)
(***************************************************************************)
\* the recorded names that still resolve in the guild
Resolving(roles) == {n \in SeqToSet(Split(roles)) : n \in guildRoles}

\* C2: for every target identifier the storage table holds at most one
\* StoredRecord, whatever the interleaving of store commands, releases and
\* release-loop ticks.
C2_OneStoredRecordPerTarget ==
    \A i, j \in 1..Len(storage) :
        storage[i].target_id = storage[j].target_id => i = j

\* the roles get_roles_for_names resolved are still roles of the guild
StillRoles(adding) ==
    \A i \in 1..Len(adding) : adding[i] # None => adding[i] \in guildRoles

\* C3: a store strips the roles it found removable, leaves the protected
\* ones and records the names of the stripped ones; a release of a member of
\* the guild (manual or timed) re-adds exactly the recorded roles that still
\* resolve, skipping the others without error, and deletes the row.
C3_RoleRoundTrip ==
    [][ /\ \A s \in 1..MaxHandlers :
               /\ ( /\ handlers[s].pc = "store_remove"
                    /\ handlers'[s].pc = "store_add" )
                  => LET m == handlers[s].member
                     IN  /\ memberRoles'[m]
                                \cap SeqToSet(handlers[s].former_roles) = {}
                         /\ memberRoles'[m] \cap ProtectedNames
                                = memberRoles[m] \cap ProtectedNames
               /\ ( /\ handlers[s].pc = "store_add"
                    /\ handlers'[s] = Idle
                    /\ Len(storage') > Len(storage) )
                  => SeqToSet(Split(storage'[Len(storage')].roles))
                         = SeqToSet(handlers[s].former_roles)
               /\ ( /\ handlers[s].pc = "release_add"
                    /\ handlers'[s] = Idle
                    /\ handlers[s].member \in members
                    /\ StillRoles(handlers[s].adding) )
                  => /\ memberRoles'[handlers[s].member] =
                            memberRoles[handlers[s].member]
                                \cup Resolving(handlers[s].drone.roles)
                     /\ handlers[s].drone.id \notin StoredIds'
        /\ ( /\ releaseLoop.pc = "add"
             /\ releaseLoop' # releaseLoop
             /\ releaseLoop.member \in members
             /\ StillRoles(releaseLoop.adding) )
           => /\ memberRoles'[releaseLoop.member] =
                     memberRoles[releaseLoop.member]
                         \cup Resolving(releaseLoop.stored.roles)
              /\ releaseLoop.stored.id \notin StoredIds'
      ]_vars

\* release_timed is through with the row it picked: it moves on, goes back to
\* sleep or ends
DoneWithPicked ==
    /\ releaseLoop.pc \in {"remove", "add"}
    /\ releaseLoop' # releaseLoop
    /\ ~ ( /\ releaseLoop'.pc = "add"
           /\ releaseLoop'.stored = releaseLoop.stored )

\* C5: when a tick of release_timed is through with an expired row it picked
\* for a member of the guild, the member does not hold the stored role, holds
\* every saved role that still resolves, and the row is gone from the table.
C5_TimedReleaseCompletes ==
    [][ ( /\ DoneWithPicked
          /\ releaseLoop.member \in members'
          /\ releaseLoop.pc = "add" => StillRoles(releaseLoop.adding) )
        => /\ STORED \notin memberRoles'[releaseLoop.member]
           /\ Resolving(releaseLoop.stored.roles)
                  \subseteq memberRoles'[releaseLoop.member]
           /\ releaseLoop.stored.id \notin StoredIds'
      ]_vars

\* an expired row, the only one of its target, that a tick has deferred and
\* that still no member of the guild matches
Unmatched(stored, t) ==
    /\ stored.id \in StoredIds
    /\ stored.id \in releaseLoop.before
    /\ \A i \in 1..Len(storage) :
           storage[i].target_id = stored.target_id => storage[i].id = stored.id
    /\ t > FromIso(stored.release_time)
    /\ ReleaseTarget(stored) = NoMember

\* the step that defers a row keeps it in the table and changes the roles
\* of no member but the one whose release the same step completes
DeferralKeepsRowAndRoles ==
    /\ [][ ( /\ ReleaseTick
             /\ releaseLoop'.deferred # {} )
           => /\ releaseLoop'.deferred \subseteq StoredIds'
              /\ memberRoles' = memberRoles
         ]_vars
    /\ [][ ( /\ releaseLoop.pc = "add"
             /\ ReleaseTickAfterAdd )
           => /\ (releaseLoop'.deferred \ releaseLoop.deferred)
                      \cap StoredIds \subseteq StoredIds'
              /\ \A m \in AllMembers \ {releaseLoop.member} :
                     memberRoles'[m] = memberRoles[m]
         ]_vars

\* C6: a tick of release_timed that finds no member for an expired row
\* leaves the row in the table and the roles of the members as they are, and
\* every later tick examines the row again while no member matches it: no
\* tick ends before it has reached such a row.
C6_DefersOnMissingMember ==
    /\ DeferralKeepsRowAndRoles
    /\ [](releaseLoop.pc = "dead" =>
            \A i \in 1..Len(releaseLoop.rest) :
                ~Unmatched(releaseLoop.rest[i], releaseLoop.now))

\* C7: a message that begins with 'release', from an author without the
\* elevated role or naming a member that has no StoredRecord, sends nothing
\* and changes neither the table nor any member's roles.
C7_IgnoredReleaseIsSilent ==
    [][ \A message \in StorageMessages :
            ( /\ OnMessage(message)
              /\ StartsWith(Lower(message.content),
                            <<"r", "e", "l", "e", "a", "s", "e">>)
              /\ \/ ~has_role(message.author, HIVE_MXTRESS)
                 \/ /\ message.mentions # <<>>
                    /\ \A i \in 1..Len(storage) :
                           storage[i].target_id # get_id(message.mentions[1]) )
            => /\ outbox' = <<>>
               /\ storage' = storage
               /\ memberRoles' = memberRoles
               /\ handlers' = handlers
      ]_vars

\* C9: release_timed never ends because the processing of one row failed.
C9_ReleaseLoopSurvivesRowFailure == releaseLoop.pc # "dead"

(***************************************************************************)
(* Properties of the orders and of the loops.                              *)
(***************************************************************************)
\* C1: for every participant identifier the orders table holds at most one
\* ActiveOrder, whatever the interleaving of report_order invocations and
\* expiry ticks.
C1_OneActiveOrderPerDrone ==
    \A i, j \in 1..Len(orders) :
        orders[i].drone_id = orders[j].drone_id => i = j

\* C4: once a tick of the expiry loop is over, every order it found expired
\* is gone from the table, whether or not a member matched it.
C4_ExpiredOrderIsDeleted ==
    \A i \in 1..Len(orderLoops) :
        orderLoops[i].pc = "sleep" =>
            orderLoops[i].expired \cap OrderIds = {}

\* C8: at most one copy of the body of each perpetual loop runs.
C8_SingleCopyPerLoop ==
    /\ Len(orderLoops) <= 1
    /\ releasers <= 1
    /\ reporters <= 1

\* C10: no order has more than one deactivation notice sent for it.
C10_AtMostOneNotice == \A id \in 1..MaxOrders : noticed[id] <= 1

\* the rejection report_order sends for a protocol_time out of bounds
DurationRejection ==
    <<Sent("context", "not authorized for that length", <<>>)>>

\* C11: for a participant with an identifier and no active order,
\* report_order goes on to insert exactly one ActiveOrder, with finish_time
\* the time of the insert plus protocol_time minutes (strictly later), if
\* and only if 1 <= protocol_time <= 120; for any other protocol_time it
\* inserts nothing and sends the duration rejection.
C11_OrderDurationBound ==
    [][ /\ \A author \in OrderAuthors, protocol_name \in ProtocolNames,
              protocol_time \in ProtocolTimes :
               ( /\ report_order(author, protocol_name, protocol_time)
                 /\ get_id(author) # None
                 /\ \A i \in 1..Len(orders) :
                        orders[i].drone_id # get_id(author) )
               => IF 1 <= protocol_time /\ protocol_time <= 120
                  THEN /\ \E s \in 1..MaxOrderHandlers :
                              /\ orderHandlers[s] = Idle
                              /\ orderHandlers'[s] # Idle
                              /\ orderHandlers'[s].drone_id = get_id(author)
                              /\ orderHandlers'[s].protocol_time
                                     = protocol_time
                       /\ outbox' # DurationRejection
                  ELSE /\ orderHandlers' = orderHandlers
                       /\ orders' = orders
                       /\ outbox' = DurationRejection
        /\ \A s \in 1..MaxOrderHandlers :
               ( /\ orderHandlers[s] # Idle
                 /\ orderHandlers'[s] = Idle )
               => /\ Len(orders') = Len(orders) + 1
                  /\ SubSeq(orders', 1, Len(orders)) = orders
                  /\ LET created == orders'[Len(orders')]
                     IN  /\ created.drone_id = orderHandlers[s].drone_id
                         /\ created.protocol = orderHandlers[s].protocol_name
                         /\ FromIso(created.finish_time)
                                = now + orderHandlers[s].protocol_time
                         /\ FromIso(created.finish_time) > now
        /\ Len(orders') > Len(orders)
               => /\ Len(orders') = Len(orders) + 1
                  /\ FromIso(orders'[Len(orders')].finish_time) - now
                         \in 1..120
      ]_vars

\* an order of the longest duration allowed is in the table, and an order
\* of a duration out of bounds has just been rejected
C11_Witness ==
    /\ \E i \in 1..Len(orders) :
           /\ orders[i].drone_id = Id1
           /\ FromIso(orders[i].finish_time) = now + 120
    /\ outbox = DurationRejection

\* report_order rejects the command of this author: the author has no
\* identifier, or has an active order, or the duration is out of bounds
OrderRejected(author, protocol_time) ==
    \/ get_id(author) = None
    \/ \E i \in 1..Len(orders) : orders[i].drone_id = get_id(author)
    \/ protocol_time < 1
    \/ protocol_time > 120

\* C13: a rejected order command leaves the orders table as it is and sends
\* the invoker a message, in each of the three cases of rejection.
C13_RejectionInformsInvoker ==
    [][ \A author \in OrderAuthors, protocol_name \in ProtocolNames,
           protocol_time \in ProtocolTimes :
            ( /\ report_order(author, protocol_name, protocol_time)
              /\ OrderRejected(author, protocol_time) )
            => /\ orders' = orders
               /\ orderHandlers' = orderHandlers
               /\ Len(outbox') = 1
               /\ outbox'[1].to = "context"
      ]_vars

(***************************************************************************)
(* Properties of the commands of the storage facility.                     *)
(***************************************************************************)
\* the message gets as far as store: release does not claim it
ReachesStore(message) == ReleaseEntry(message).claimed = "False"

\* the content is 'help', in any letter case
IsHelp(content) ==
    /\ Len(content) = 4
    /\ content[1] \in {"h", "H"}
    /\ content[2] \in {"e", "E"}
    /\ content[3] \in {"l", "L"}
    /\ content[4] \in {"p", "P"}

\* the storage table holds a StoredRecord of this target
HasRecord(target_id) ==
    \E i \in 1..Len(storage) : storage[i].target_id = target_id

\* a member of the guild has this identifier and holds the drone role
Eligible(target_id) ==
    \E m \in members : get_id(m) = target_id /\ DRONE \in memberRoles[m]

\* the step changes no row, no role and no handler
NothingStored ==
    /\ storage' = storage
    /\ memberRoles' = memberRoles
    /\ handlers' = handlers

\* C12: a well-formed store command whose target has no StoredRecord and is
\* a member holding the drone role starts a storage if and only if
\* 0 < hours <= 24, and the storage that completes inserts a StoredRecord
\* with release_time = now + hours, strictly after now; for hours = 0 or
\* hours > 24 nothing is inserted, no role changes and the channel is told.
C12_StorageHourBound ==
    [][ /\ \A message \in CommandMessages :
               ( /\ OnMessage(message)
                 /\ ReachesStore(message)
                 /\ MessageMatches(message.content)
                 /\ ~HasRecord(ParseMessage(message.content).target_id)
                 /\ Eligible(ParseMessage(message.content).target_id) )
               => LET p == ParseMessage(message.content)
                  IN  IF 0 < ToInt(p.time) /\ ToInt(p.time) <= 24
                      THEN /\ \E s \in 1..MaxHandlers :
                                  /\ handlers[s] = Idle
                                  /\ handlers'[s].pc = "store_remove"
                                  /\ handlers'[s].target_id = p.target_id
                                  /\ handlers'[s].time = p.time
                           /\ outbox' = <<>>
                      ELSE /\ NothingStored
                           /\ outbox' = <<Sent("channel",
                                               "not between 0 and 24",
                                               p.time)>>
        /\ \A s \in 1..MaxHandlers :
               ( /\ handlers[s].pc = "store_add"
                 /\ handlers'[s] = Idle
                 /\ handlers[s].member \in members )
               => /\ Len(storage') = Len(storage) + 1
                  /\ SubSeq(storage', 1, Len(storage)) = storage
                  /\ LET row == storage'[Len(storage')]
                         hours == ToInt(handlers[s].time)
                     IN  /\ row.target_id = handlers[s].target_id
                         /\ FromIso(row.release_time) = now + 60 * hours
                         /\ FromIso(row.release_time) > now
        /\ Len(storage') > Len(storage)
               => LET row == storage'[Len(storage')]
                  IN  \E hours \in 1..24 :
                          FromIso(row.release_time) = now + 60 * hours
      ]_vars

\* a StoredRecord of 24 hours is in the table, and a command of 25 hours
\* has just been rejected
C12_Witness ==
    /\ \E i \in 1..Len(storage) :
           /\ storage[i].target_id = Id1
           /\ FromIso(storage[i].release_time) = now + 60 * 24
    /\ outbox = <<Sent("channel", "not between 0 and 24", <<"2", "5">>)>>

\* C15: 'help' in any letter case makes store send nothing, change nothing
\* and return not-claimed; any other message that does not match the format
\* makes it send exactly the format rejection, change nothing and return
\* claimed.
C15_MessageTriage ==
    /\ [](\A message \in CommandMessages :
              /\ IsHelp(message.content)
                     => StoreEntry(message).claimed = "False"
              /\ ( /\ ~IsHelp(message.content)
                   /\ ~MessageMatches(message.content) )
                     => StoreEntry(message).claimed = "True")
    /\ [][ \A message \in CommandMessages :
               ( /\ OnMessage(message)
                 /\ ReachesStore(message)
                 /\ ~MessageMatches(message.content) )
               => /\ NothingStored
                  /\ outbox' = IF IsHelp(message.content)
                               THEN <<>>
                               ELSE <<Sent("channel", "REJECT_MESSAGE",
                                           <<>>)>>
         ]_vars

\* the format rejection has just been sent, and nothing is stored
C15_Witness ==
    /\ outbox = <<Sent("channel", "REJECT_MESSAGE", <<>>)>>
    /\ storage = <<>>
    /\ \A s \in 1..MaxHandlers : handlers[s] = Idle

\* a well-formed store command with valid hours that reaches store and
\* whose target no member with the drone role has
NoEligibleTarget(message) ==
    /\ ReachesStore(message)
    /\ MessageMatches(message.content)
    /\ 0 < ToInt(ParseMessage(message.content).time)
    /\ ToInt(ParseMessage(message.content).time) <= 24
    /\ ~Eligible(ParseMessage(message.content).target_id)

\* the not-found error naming the target is sent and nothing else happens
NotFoundSent(message) ==
    /\ NothingStored
    /\ outbox' = <<Sent("channel", "could not be found",
                        ParseMessage(message.content).target_id)>>

\* C17, as stated: a well-formed store command with valid hours, for a
\* target no member holding the drone role has, sends the not-found error
\* naming the target, inserts nothing and changes no role.
C17_NoEligibleTarget ==
    [][ \A message \in CommandMessages :
            ( /\ OnMessage(message)
              /\ NoEligibleTarget(message) )
            => NotFoundSent(message)
      ]_vars

\* C17, for a target that has no StoredRecord: such a command sends the
\* not-found error naming the target, inserts nothing and changes no role.
C17_NoEligibleTargetNoRecord ==
    [][ \A message \in CommandMessages :
            ( /\ OnMessage(message)
              /\ NoEligibleTarget(message)
              /\ ~HasRecord(ParseMessage(message.content).target_id) )
            => NotFoundSent(message)
      ]_vars

\* the not-found error has just been sent for a member that is in the
\* guild without the drone role
C17_Witness ==
    /\ outbox = <<Sent("channel", "could not be found", Id2)>>
    /\ "m2" \in members
    /\ DRONE \notin memberRoles["m2"]

(***************************************************************************)
(* Properties of the stored role and of the StoredRecords.                 *)
(***************************************************************************)
\* no store or release handler and no tick of release_timed is suspended
\* in the middle of its work
Quiescent ==
    /\ \A s \in 1..MaxHandlers : handlers[s] = Idle
    /\ releaseLoop.pc \in {"off", "sleep", "dead"}

\* C18: when nothing is suspended in the middle of its work, a member holds
\* the stored role if and only if the table holds a StoredRecord whose
\* target_id is the member's identifier.
C18_StoredRoleMatchesRecord ==
    Quiescent =>
        \A m \in members :
            get_id(m) # None =>
                (STORED \in memberRoles[m] <=> HasRecord(get_id(m)))

\* C20: whenever store has stripped the removable roles of a member, at
\* every point the handler is suspended at, the table holds a StoredRecord
\* of that member with the names of those roles.
C20_StrippedRolesAreRecorded ==
    \A s \in 1..MaxHandlers :
        ( /\ handlers[s].pc = "store_add"
          /\ handlers[s].former_roles # <<>>
          /\ handlers[s].member \in members
          /\ memberRoles[handlers[s].member]
                 \cap SeqToSet(handlers[s].former_roles) = {} )
        => \E i \in 1..Len(storage) :
               /\ storage[i].target_id = handlers[s].target_id
               /\ SeqToSet(Split(storage[i].roles))
                      = SeqToSet(handlers[s].former_roles)

\* the message is a release command of an author holding the elevated
\* role, mentioning a member whose identifier a StoredRecord has as target
AuthorizedRelease(message) ==
    /\ StartsWith(Lower(message.content),
                  <<"r", "e", "l", "e", "a", "s", "e">>)
    /\ has_role(message.author, HIVE_MXTRESS)
    /\ message.mentions # <<>>
    /\ HasRecord(get_id(message.mentions[1]))

\* the release of this row for this member is complete after the step: the
\* member is without the stored role and holds the saved roles the guild
\* still has, and the row is gone
Released(m, row) ==
    /\ STORED \notin memberRoles'[m]
    /\ Resolving(row.roles) \subseteq memberRoles'[m]
    /\ row.id \notin StoredIds'

\* C14: a release command of an author holding the elevated role, for a
\* member that has a StoredRecord, is carried out whatever the release_time:
\* when the handler returns, the stored role is removed, the saved roles are
\* re-added and the row is deleted.
C14_ManualReleaseIgnoresTimer ==
    [][ /\ \A message \in StorageMessages :
               ( /\ OnMessage(message)
                 /\ AuthorizedRelease(message) )
               => \E s \in 1..MaxHandlers :
                      /\ handlers[s] = Idle
                      /\ handlers'[s].pc = "release_remove"
                      /\ handlers'[s].member = message.mentions[1]
                      /\ handlers'[s].drone.target_id
                             = get_id(message.mentions[1])
        /\ \A s \in 1..MaxHandlers :
               ( /\ handlers[s].pc \in {"release_remove", "release_add"}
                 /\ handlers'[s] = Idle
                 /\ handlers[s].member \in members )
               => Released(handlers[s].member, handlers[s].drone)
      ]_vars

\* a manual release and a tick of release_timed are both at work on the
\* same StoredRecord
Racing(s) ==
    /\ handlers[s].pc \in {"release_remove", "release_add"}
    /\ releaseLoop.pc \in {"remove", "add"}
    /\ handlers[s].drone.id = releaseLoop.stored.id

\* the member is being stored or has been stored again since
StoredAgain(m) ==
    \/ HasRecord(get_id(m))
    \/ \E s \in 1..MaxHandlers :
           /\ handlers[s].pc \in {"store_remove", "store_add"}
           /\ handlers[s].member = m

\* C19: when a manual release and a tick of release_timed have both picked
\* the same StoredRecord, neither fails, and each leaves, when it is through
\* with the row, the state a single release leaves: the member without the
\* stored role, with its protected roles and the saved ones, the row gone
\* (as long as the member is not put in storage again in the meantime).
C19_ReleaseRaceIsBenign ==
    [][ \A s \in 1..MaxHandlers :
            /\ ( /\ Racing(s)
                 /\ releaseLoop' # releaseLoop )
               => /\ releaseLoop'.pc # "dead"
                  /\ DoneWithPicked
                        => Released(releaseLoop.member, releaseLoop.stored)
            /\ ( /\ Racing(s)
                 /\ handlers'[s] = Idle )
               => Released(handlers[s].member, handlers[s].drone)
            /\ ( /\ handlers[s].pc = "release_add"
                 /\ handlers'[s] = Idle
                 /\ handlers[s].drone.id \notin StoredIds
                 /\ ~StoredAgain(handlers[s].member) )
               => /\ Released(handlers[s].member, handlers[s].drone)
                  /\ memberRoles'[handlers[s].member] \ ProtectedNames
                         = Resolving(handlers[s].drone.roles)
            /\ ( /\ releaseLoop.pc = "add"
                 /\ releaseLoop' # releaseLoop
                 /\ releaseLoop.stored.id \notin StoredIds
                 /\ ~StoredAgain(releaseLoop.member) )
               => /\ releaseLoop'.pc # "dead"
                  /\ Released(releaseLoop.member, releaseLoop.stored)
                  /\ memberRoles'[releaseLoop.member] \ ProtectedNames
                         = Resolving(releaseLoop.stored.roles)
      ]_vars

(***************************************************************************)
(* Properties of the rows that have not expired.                           *)
(***************************************************************************)
\* the time a step of release_timed compares the rows with: the clock when
\* the tick begins, the time the tick took before when it resumes
ScanTime == IF releaseLoop.pc = "sleep" THEN now ELSE releaseLoop.now

\* a step of release_timed leaves in the table every row that has not
\* expired and changes roles only for the expired row it has picked
ReleaseScanLeavesUnexpired ==
    [][ ( \/ ReleaseTick
          \/ ReleaseTickAfterRemove
          \/ ReleaseTickAfterAdd )
        => /\ \A i \in 1..Len(storage) :
                  FromIso(storage[i].release_time) >= ScanTime
                      => \E j \in 1..Len(storage') : storage'[j] = storage[i]
           /\ \A m \in AllMembers :
                  memberRoles'[m] # memberRoles[m]
                      => /\ releaseLoop.pc \in {"remove", "add"}
                         /\ releaseLoop.member = m
                         /\ releaseLoop.now
                                > FromIso(releaseLoop.stored.release_time)
      ]_vars

\* a step of the expiry loop of the orders leaves in the table every order
\* that has not expired and sends no notice for it
OrderScanLeavesUnexpired ==
    [][ \A i \in 1..Len(orderLoops) :
            ( \/ OrderTick(i)
              \/ OrderTickAfterSend(i) )
            => \A k \in 1..Len(orders) :
                   FromIso(orders[k].finish_time) >= now
                       => /\ \E j \in 1..Len(orders') : orders'[j] = orders[k]
                          /\ noticed'[orders[k].id] = noticed[orders[k].id]
      ]_vars

\* C16: a tick of either expiry loop reverses and deletes only the rows
\* whose time is strictly before now; a row that has not expired stays in
\* its table unchanged, causes no notice and no role change, and is examined
\* again on the next tick: no loop ends with such a row of its scan left.
C16_UnexpiredRowsLeftAlone ==
    /\ ReleaseScanLeavesUnexpired
    /\ OrderScanLeavesUnexpired
    /\ [](releaseLoop.pc = "dead" =>
            \A i \in 1..Len(releaseLoop.rest) :
                ~ ( /\ releaseLoop.rest[i].id \in StoredIds
                    /\ FromIso(releaseLoop.rest[i].release_time)
                           >= releaseLoop.now ))

====
